---- MODULE Spec2Model ----
(***************************************************************************)
(* The schema-driven tree walker of mini-babel (traverse + NodePath) as a  *)
(* state machine.  The heap holds the AST nodes and the array objects of   *)
(* their sequence fields; the call stack of traverse is explicit; visitor  *)
(* hooks are nondeterministic callers of path.replaceWith / path.remove.   *)
(* The visitors of the Babel plugins of the repository (linter,            *)
(* mangle-compress) and the interpreter's Scope follow, each with the      *)
(* variables of its own and a specification of its own.                    *)
(***************************************************************************)
EXTENDS Integers, Sequences, FiniteSets, TLC

VARIABLES
    nodes,      \* heap: node id -> [type, f: field name -> value]
    arrays,     \* heap: array id -> sequence of node ids (JS array objects)
    visitors,   \* the visitor map handed to traverse: type -> shape of the entry
    root,       \* the node handed to the outermost traverse call
    stack,      \* the activations of traverse, innermost last
    status,     \* "running" | "done" | "error"
    err,        \* what threw and where: [what, node, key]; what = "none" before
    events,     \* log of the current walk: one record per enter / exit phase
    nextAct,    \* number of the next activation of the current walk
    used,       \* replacement nodes already handed to replaceWith
    muts,       \* number of replaceWith / remove calls and stop signals of hooks so far
    walks,      \* number of traverse calls made by the caller so far
    lastOp,     \* the last replaceWith / remove call, with the heap before it
    impl,       \* the iteration of traverse that runs: "path" | "fnonly" |
                \* "parentPath" (paths without key, index and methods),
                \* "direct": "path" with hooks that also write to arrays themselves,
                \* or "calls": "path" with hooks that do nothing but call
                \* replaceWith / remove
    \* the linter plugins
    code,       \* the nodes of the file as parsed, in the order Babel visits them
    ast,        \* the same nodes as they are now (path.node of each)
    errors,     \* file.get('errors')
    opts,       \* state.opts
    pos,        \* index in ast of the next node Babel hands to the visitor
    \* the BlockStatement visitor of the compress plugin
    statementPaths, \* path.get('body'): the kind of the statement of each path
    body,       \* path.node.body now: the statements left, by their number
    loopI,      \* the loop variable i of the visitor
    purge,      \* a completion statement was met
    \* the interpreter's scopes
    scopes,     \* the Scope objects, outermost first: parent and declarations
    lookup,     \* the last call of get: [scope, name, res]
    \* base54 of the mangle plugin, called twice
    arg,        \* the number each call was given
    num,        \* the local num of each call
    ret,        \* the local ret of each call, a sequence of characters
    returned,   \* whether each call has returned
    \* noStackTraceWrapper of the linter's utils
    stackTraceLimit, \* Error.stackTraceLimit
    tmp,        \* the local tmp of the call under way
    cb,         \* what the callbacks of the calls to come do, first call first
    at,         \* where the call under way is: "idle" | "saved" | "zeroed" | "called"
    before      \* Error.stackTraceLimit when the last call began

lintVars == <<code, ast, errors, opts, pos>>

compressVars == <<statementPaths, body, loopI, purge>>

scopeVars == <<scopes, lookup>>

mangleVars == <<arg, num, ret, returned>>

wrapperVars == <<stackTraceLimit, tmp, cb, at, before>>

\* the variables of the plugins, which the tree walker never touches
plugins == <<lintVars, compressVars, scopeVars, mangleVars, wrapperVars>>

vars == <<nodes, arrays, visitors, root, stack, status, err, events, nextAct,
          used, muts, walks, lastOp, impl, plugins>>

-----------------------------------------------------------------------------
(* Bounds *)

\* length of the body of the hand-built sequence tree
BodyLen == 3
\* replaceWith / remove calls and stop signals the hooks make in total
MaxMutations == 2
\* traverse calls the caller makes on the same tree
MaxWalks == 2

-----------------------------------------------------------------------------
(* Values of fields *)

Keys == {"body", "declarations", "id", "init"}

Undef == [k |-> "undef", ref |-> 0]
Null == [k |-> "null", ref |-> 0]
NodeV(n) == [k |-> "node", ref |-> n]
ArrV(a) == [k |-> "arr", ref |-> a]

\* listKey / parent / parentPath of a call that passed no such argument
NoIndex == 0 - 1
NoNode == 0
NoKey == ""

\* JS truthiness of a listKey: undefined and 0 are falsy
Truthy(listKey) == listKey > 0

-----------------------------------------------------------------------------
(* Schema registry *)

Types == {"Program", "VariableDeclaration", "VariableDeclarator",
          "Identifier", "NumericLiteral", "StringLiteral"}

\* astDefinitionsMap.get(type); a miss is `undefined`
astDefinitionsMap(type) ==
    CASE type = "Program" ->
            [defined |-> TRUE, hasVisitor |-> TRUE, visitor |-> <<"body">>]
      [] type = "VariableDeclaration" ->
            [defined |-> TRUE, hasVisitor |-> TRUE, visitor |-> <<"declarations">>]
      [] type = "VariableDeclarator" ->
            [defined |-> TRUE, hasVisitor |-> TRUE, visitor |-> <<"id", "init">>]
      [] type \in {"Identifier", "NumericLiteral"} ->
            [defined |-> TRUE, hasVisitor |-> FALSE, visitor |-> <<>>]
      [] OTHER ->
            [defined |-> FALSE, hasVisitor |-> FALSE, visitor |-> <<>>]

-----------------------------------------------------------------------------
(* The trees handed to traverse *)

Leaf(t) == [type |-> t, f |-> [k \in Keys |-> Undef]]
Node1(t, k1, v1) == [type |-> t, f |-> [k \in Keys |-> IF k = k1 THEN v1 ELSE Undef]]
Node2(t, k1, v1, k2, v2) ==
    [type |-> t,
     f |-> [k \in Keys |-> IF k = k1 THEN v1 ELSE IF k = k2 THEN v2 ELSE Undef]]

\* `const a = 1;` as parsed by the demo
DemoRoot == 1
\* `const a = "s"; b`-like tree: holds a StringLiteral, which has no schema entry
StrRoot == 6
\* replacement subtrees a hook may pass to replaceWith
ReplLeaf == 12
ReplDeclarator == 13
\* hand-built Program whose body is a sequence of BodyLen leaves
SeqRoot == 16

NodeIds == 1 .. (SeqRoot + BodyLen)
ArrIds == 1 .. 5

Replacements == {ReplLeaf, ReplDeclarator}
Roots == {DemoRoot, StrRoot, SeqRoot}

nodes0 ==
    [n \in NodeIds |->
        CASE n = 1 -> Node1("Program", "body", ArrV(1))
          [] n = 2 -> Node1("VariableDeclaration", "declarations", ArrV(2))
          [] n = 3 -> Node2("VariableDeclarator", "id", NodeV(4), "init", NodeV(5))
          [] n = 4 -> Leaf("Identifier")
          [] n = 5 -> Leaf("NumericLiteral")
          [] n = 6 -> Node1("Program", "body", ArrV(3))
          [] n = 7 -> Node1("VariableDeclaration", "declarations", ArrV(4))
          [] n = 8 -> Leaf("Identifier")
          [] n = 9 -> Node2("VariableDeclarator", "id", NodeV(10), "init", NodeV(11))
          [] n = 10 -> Leaf("Identifier")
          [] n = 11 -> Leaf("StringLiteral")
          [] n = 12 -> Leaf("Identifier")
          [] n = 13 -> Node2("VariableDeclarator", "id", NodeV(14), "init", NodeV(15))
          [] n = 14 -> Leaf("Identifier")
          [] n = 15 -> Leaf("NumericLiteral")
          [] n = 16 -> Node1("Program", "body", ArrV(5))
          [] OTHER -> IF (n - SeqRoot) % 2 = 1 THEN Leaf("Identifier")
                                              ELSE Leaf("NumericLiteral")]

arrays0 ==
    [a \in ArrIds |->
        CASE a = 1 -> <<2>>
          [] a = 2 -> <<3>>
          [] a = 3 -> <<7, 8>>
          [] a = 4 -> <<9>>
          [] OTHER -> [j \in 1 .. BodyLen |-> SeqRoot + j]]

-----------------------------------------------------------------------------
(* Visitor maps *)

Shapes == {"none", "fn", "enter", "exit", "both"}

\* visitorFuncs.enter is set: a bare function is wrapped as {enter: fn}
HasEnter(shape) == shape \in {"fn", "enter", "both"}
\* a bare function registered for both phases
HasExitOrFunction(shape) == shape \in {"fn", "exit", "both"}

\* visitorFuncs.exit is set
HasExit(shape) == shape \in {"exit", "both"}

EmptyVisitors == [t \in Types |-> "none"]

\* every type registered the same way, or a single type registered
VisitorMaps ==
    {[t \in Types |-> s] : s \in Shapes}
    \cup {[t \in Types |-> IF t = u THEN s ELSE "none"] :
            u \in Types, s \in Shapes \ {"none"}}

-----------------------------------------------------------------------------
(* Array.prototype.splice and forEach's element test *)

Min(a, b) == IF a < b THEN a ELSE b

\* s.splice(start, deleteCount, ...items) for start >= 0: the array afterwards
Splice(s, start, deleteCount, items) ==
    LET from == Min(start, Len(s))
        del == Min(deleteCount, Len(s) - from)
    IN  SubSeq(s, 1, from) \o items \o SubSeq(s, from + del + 1, Len(s))

\* a forEach that stops one element short
HasPropertyButLast(s, k) == k + 1 < Len(s)

\* forEach calls back for index k only if k is (still) a property of the array
HasProperty(s, k) == k < Len(s)

-----------------------------------------------------------------------------
(* NodePath.replaceWith / NodePath.remove                                   *)
(* p is the path (a frame), ns / as the heap; the result is the heap after  *)
(* the call and whether the call threw a TypeError.                         *)

Threw(ns, as) == [threw |-> TRUE, nodes |-> ns, arrays |-> as]
Returned(ns, as) == [threw |-> FALSE, nodes |-> ns, arrays |-> as]

\* this.parent && (this.parent[this.key] = v): the root is silently let be
AssignFieldIfParent(ns, as, p, v) ==
    IF p.parent = NoNode
    THEN Returned(ns, as)
    ELSE Returned([ns EXCEPT ![p.parent].f[p.key] = v], as)

\* this.parent[this.key] = v; throws when this.parent is undefined
AssignField(ns, as, p, v) ==
    IF p.parent = NoNode
    THEN Threw(ns, as)
    ELSE Returned([ns EXCEPT ![p.parent].f[p.key] = v], as)

\* this.parent[this.key].splice(this.listKey, 1, ...items), then the assignment
SpliceThenAssign(ns, as, p, items, v) ==
    IF p.parent = NoNode
    THEN Threw(ns, as)
    ELSE LET cur == ns[p.parent].f[p.key] IN
         IF cur.k # "arr"
         THEN Threw(ns, as)   \* null.splice / node.splice is not a function
         ELSE AssignField(ns,
                          [as EXCEPT ![cur.ref] = Splice(@, p.listKey, 1, items)],
                          p, v)

removeDeletesField(ns, as, p) ==
    IF Truthy(p.listKey)
    THEN SpliceThenAssign(ns, as, p, <<>>, Undef)
    ELSE AssignField(ns, as, p, Undef)

replaceWith(ns, as, p, m) ==
    IF Truthy(p.listKey)
    THEN SpliceThenAssign(ns, as, p, <<m>>, NodeV(m))
    ELSE AssignField(ns, as, p, NodeV(m))

remove(ns, as, p) ==
    IF Truthy(p.listKey)
    THEN SpliceThenAssign(ns, as, p, <<>>, Null)
    ELSE AssignField(ns, as, p, Null)

-----------------------------------------------------------------------------
(* What a hook does with the path it is handed *)

NoHook == [op |-> "absent", m |-> NoNode]
Noop == [op |-> "noop", m |-> NoNode]
Remove == [op |-> "remove", m |-> NoNode]
Replace(m) == [op |-> "replaceWith", m |-> m]
\* the hook throws an error of its own
Raise == [op |-> "throw", m |-> NoNode]
\* the hook asks for the walk to stop, by its return value or a flag on the path
Stop == [op |-> "stop", m |-> NoNode]

\* the hook shortens the array it was reached through, itself:
\* if (Array.isArray(path.parent[path.key])) path.parent[path.key].length = path.listKey
Truncate == [op |-> "truncate", m |-> NoNode]

\* the array of the path's parent field after the hook's own write
truncate(ns, as, p) ==
    IF p.parent # NoNode /\ p.listKey # NoIndex /\ ns[p.parent].f[p.key].k = "arr"
    THEN Returned(ns, [as EXCEPT ![ns[p.parent].f[p.key].ref] =
                                    SubSeq(@, 1, Min(p.listKey, Len(@)))])
    ELSE Returned(ns, as)

\* the first iteration hands the node itself to the hook: no path to call
HookChoices(present) ==
    IF ~present THEN {NoHook}
    ELSE {Noop} \cup
         (IF impl = "calls" THEN {} ELSE {Raise}) \cup
         (IF muts < MaxMutations /\ impl \in {"path", "direct", "calls"}
          THEN {Remove} \cup {Replace(m) : m \in Replacements \ used}
               \cup (IF impl = "calls" THEN {} ELSE {Stop})
               \cup (IF impl = "direct" THEN {Truncate} ELSE {})
          ELSE {})

\* the call of the hook: the heap after it and whether it ended by a throw;
\* whatever the hook returns is dropped by the expression statement
RunHook(c, p) ==
    CASE c.op = "replaceWith" -> replaceWith(nodes, arrays, p, c.m)
      [] c.op = "remove" -> remove(nodes, arrays, p)
      [] c.op = "throw" -> Threw(nodes, arrays)
      [] c.op = "truncate" -> truncate(nodes, arrays, p)
      [] OTHER -> Returned(nodes, arrays)

\* a hook call wrapped in try / catch: the error is swallowed
UncaughtNever(r) == FALSE

\* the hook is called bare: what it throws leaves traverse
Uncaught(r) == r.threw

-----------------------------------------------------------------------------
(* Activations of traverse *)

\* a traverse that calls the exit hook before it walks the children
BodyExitFirst == <<"enter", "exit", "children">>

\* the statements of traverse's body after the path is built, in order
Body == <<"enter", "children", "exit">>

\* the body of the first iteration: the callback, then the children
BodyFnOnly == <<"enter", "children">>

Stmts == IF impl = "fnonly" THEN BodyFnOnly ELSE Body

Top == stack[Len(stack)]
Rest == SubSeq(stack, 1, Len(stack) - 1)
SetTop(fr) == Rest \o <<fr>>

\* a NodePath that does not keep the path of the parent
FrameWithoutParentPath(act, node, parent, parentPath, key, listKey) ==
    [act |-> act, node |-> node, pnode |-> node, parent |-> parent,
     parentPath |-> 0, key |-> key, listKey |-> listKey,
     ph |-> 1, sub |-> "start", fi |-> 0, prop |-> 0, k |-> 0, len |-> 0]

\* new NodePath(node, parent, parentPath, key, listKey) and the locals
Frame(act, node, parent, parentPath, key, listKey) ==
    [act |-> act, node |-> node, pnode |-> node, parent |-> parent,
     parentPath |-> parentPath, key |-> key, listKey |-> listKey,
     ph |-> 1, sub |-> "start", fi |-> 0, prop |-> 0, k |-> 0, len |-> 0]

Event(phase, fr, c, r) ==
    [ph |-> phase, act |-> fr.act, node |-> fr.node, pnode |-> fr.pnode,
     parent |-> fr.parent, parentAct |-> fr.parentPath, key |-> fr.key,
     listKey |-> fr.listKey, hook |-> c.op # "absent", op |-> c.op, m |-> c.m,
     threw |-> r.threw]

NoOp == [op |-> "none", act |-> 0, ph |-> "none", node |-> NoNode,
         parent |-> NoNode, key |-> NoKey, listKey |-> NoIndex, m |-> NoNode,
         threw |-> FALSE, preNodes |-> nodes0, preArrays |-> arrays0]

OpRecord(phase, fr, c, r) ==
    [op |-> c.op, act |-> fr.act, ph |-> phase, node |-> fr.pnode,
     parent |-> fr.parent, key |-> fr.key, listKey |-> fr.listKey, m |-> c.m,
     threw |-> r.threw, preNodes |-> nodes, preArrays |-> arrays]

\* nothing thrown
NoErr == [what |-> "none", node |-> NoNode, key |-> NoKey]

\* no linter runs
LintIdle ==
    /\ code = <<>>
    /\ ast = <<>>
    /\ errors = <<>>
    /\ opts = [fix |-> FALSE]
    /\ pos = 1

\* no block is being compressed
CompressIdle ==
    /\ statementPaths = <<>>
    /\ body = <<>>
    /\ loopI = 0
    /\ purge = FALSE

\* the interpreter has made no scope
ScopeIdle ==
    /\ scopes = <<>>
    /\ lookup = [scope |-> 0, name |-> "", res |-> "undefined"]

\* base54 has not been called
MangleIdle ==
    /\ arg = <<>>
    /\ num = <<>>
    /\ ret = <<>>
    /\ returned = <<>>

\* noStackTraceWrapper has not been called; V8's default limit
WrapperIdle ==
    /\ stackTraceLimit = 10
    /\ tmp = 10
    /\ cb = <<>>
    /\ at = "idle"
    /\ before = 10

PluginsIdle == LintIdle /\ CompressIdle /\ ScopeIdle /\ MangleIdle /\ WrapperIdle

Init ==
    /\ nodes = nodes0
    /\ arrays = arrays0
    /\ visitors \in VisitorMaps
    /\ root \in Roots
    /\ stack = <<Frame(1, root, NoNode, 0, NoKey, NoIndex)>>
    /\ status = "running"
    /\ err = NoErr
    /\ events = <<>>
    /\ nextAct = 2
    /\ used = {}
    /\ muts = 0
    /\ walks = 1
    /\ lastOp = NoOp
    /\ impl = "path"
    /\ PluginsIdle

\* an exception: no catch anywhere, every activation is unwound
Throw(what, node, key) ==
    /\ status' = "error"
    /\ err' = [what |-> what, node |-> node, key |-> key]
    /\ stack' = <<>>

\* the statement of the top activation is finished: go on with the next one,
\* or return to the caller after the last one
Advance(fr) ==
    IF fr.ph < Len(Stmts)
    THEN /\ stack' = SetTop([fr EXCEPT !.ph = @ + 1, !.sub = "start"])
         /\ UNCHANGED <<status, err>>
    ELSE /\ stack' = Rest
         /\ status' = IF Len(stack) = 1 THEN "done" ELSE status
         /\ UNCHANGED err

\* visitorFuncs.<phase> && visitorFuncs.<phase>(path)
HookStep(phase, present) ==
    \E c \in HookChoices(present) :
        LET fr == Top
            r == RunHook(c, fr)
        IN  /\ events' = Append(events, Event(phase, fr, c, r))
            /\ nodes' = r.nodes
            /\ arrays' = r.arrays
            /\ muts' = IF c.op \in {"replaceWith", "remove", "stop", "truncate"}
                        THEN muts + 1 ELSE muts
            /\ used' = IF c.op = "replaceWith" THEN used \cup {c.m} ELSE used
            /\ lastOp' = IF c.op = "absent" THEN lastOp ELSE OpRecord(phase, fr, c, r)
            /\ IF Uncaught(r)
               THEN Throw(IF c.op = "throw" THEN "hook" ELSE "mutation", fr.node, fr.key)
               ELSE Advance(fr)
            /\ UNCHANGED <<visitors, root, nextAct, walks, impl, plugins>>

Running(phase) ==
    /\ status = "running"
    /\ stack # <<>>
    /\ Stmts[Top.ph] = phase

\* the first iteration calls the entry only if it is a function
IsFunction(shape) == shape = "fn"

\* line 41
Enter ==
    /\ Running("enter")
    /\ HookStep("enter", IF impl = "fnonly"
                         THEN IsFunction(visitors[nodes[Top.node].type])
                         ELSE HasEnter(visitors[nodes[Top.node].type]))

\* line 55
Exit ==
    /\ Running("exit")
    /\ HookStep("exit", HasExit(visitors[nodes[Top.node].type]))

\* traverse(v, visitors, fr.node, path, key, listKey) up to the new NodePath:
\* node.type throws when the argument is null or undefined
Call(fr, v, key, listKey) ==
    IF v.k # "node"
    THEN /\ Throw(IF v.k = "null" THEN "type of null" ELSE "type of undefined",
                  fr.node, key)
         /\ UNCHANGED nextAct
    ELSE /\ stack' = SetTop(fr) \o
                   <<IF impl = "parentPath"
                     THEN Frame(nextAct, v.ref, fr.node, fr.act, NoKey, NoIndex)
                     ELSE Frame(nextAct, v.ref, fr.node, fr.act, key, listKey)>>
         /\ nextAct' = nextAct + 1
         /\ UNCHANGED <<status, err>>

Heap == <<nodes, arrays, visitors, root, events, used, muts, walks, lastOp, impl,
          plugins>>

\* definition?.visitor: a schema miss is walked through like a leaf
DefinitionVisitorOptional(def) ==
    IF def.defined /\ def.hasVisitor THEN "walk" ELSE "skip"

\* a traverse that returns early for a type the visitor map does not name
DefinitionVisitorNeedsEntry(def) ==
    IF ~def.defined THEN "throw"
    ELSE IF def.hasVisitor /\ visitors[nodes[Top.node].type] # "none"
         THEN "walk" ELSE "skip"

\* definition.visitor.forEach without the test before it
DefinitionVisitorUnchecked(def) ==
    IF def.defined /\ def.hasVisitor THEN "walk" ELSE "throw"

\* the test `definition.visitor`: reading a property of undefined throws
DefinitionVisitor(def) ==
    IF ~def.defined THEN "throw"
    ELSE IF def.hasVisitor THEN "walk" ELSE "skip"

\* line 43: if (definition.visitor)
Visit ==
    /\ Running("children")
    /\ Top.sub = "start"
    /\ LET test == DefinitionVisitor(astDefinitionsMap(nodes[Top.node].type)) IN
         CASE test = "throw" -> Throw("visitor of undefined", Top.node, NoKey)
           [] test = "walk" ->
                /\ stack' = SetTop([Top EXCEPT !.sub = "fields", !.fi = 1])
                /\ UNCHANGED <<status, err>>
           [] OTHER -> Advance(Top)
    /\ UNCHANGED <<Heap, nextAct>>

\* a forEach over the field names from the last to the first
FieldAtReversed(def, fi) == def.visitor[Len(def.visitor) + 1 - fi]

\* the key of the fi-th callback of definition.visitor.forEach
FieldAt(def, fi) == def.visitor[fi]

\* lines 44-52: one iteration of definition.visitor.forEach
NextField ==
    /\ Running("children")
    /\ Top.sub = "fields"
    /\ LET def == astDefinitionsMap(nodes[Top.node].type) IN
         /\ Top.fi <= Len(def.visitor)
         /\ LET key == FieldAt(def, Top.fi)
                prop == nodes[Top.node].f[key]
            IN  IF prop.k = "arr"
                THEN /\ stack' = SetTop([Top EXCEPT !.sub = "elems", !.prop = prop.ref,
                                                     !.k = 0,
                                                     !.len = Len(arrays[prop.ref])])
                     /\ UNCHANGED <<status, err, nextAct>>
                ELSE Call([Top EXCEPT !.fi = @ + 1], prop, key, NoIndex)
    /\ UNCHANGED Heap

\* definition.visitor.forEach is through
FieldsDone ==
    /\ Running("children")
    /\ Top.sub = "fields"
    /\ Top.fi > Len(astDefinitionsMap(nodes[Top.node].type).visitor)
    /\ Advance(Top)
    /\ UNCHANGED <<Heap, nextAct>>

\* lines 47-49: one iteration of prop.forEach
NextElem ==
    /\ Running("children")
    /\ Top.sub = "elems"
    /\ Top.k < Top.len
    /\ LET def == astDefinitionsMap(nodes[Top.node].type)
           next == [Top EXCEPT !.k = @ + 1]
       IN  IF HasProperty(arrays[Top.prop], Top.k)
           THEN Call(next, NodeV(arrays[Top.prop][Top.k + 1]), FieldAt(def, Top.fi), Top.k)
           ELSE /\ stack' = SetTop(next)
                /\ UNCHANGED <<status, err, nextAct>>
    /\ UNCHANGED Heap

\* prop.forEach is through
ElemsDone ==
    /\ Running("children")
    /\ Top.sub = "elems"
    /\ Top.k >= Top.len
    /\ stack' = SetTop([Top EXCEPT !.sub = "fields", !.fi = @ + 1])
    /\ UNCHANGED <<Heap, status, err, nextAct>>

\* the caller walks the tree again, with the same visitor map
Restart ==
    /\ status = "done"
    /\ walks < MaxWalks
    /\ stack' = <<Frame(1, root, NoNode, 0, NoKey, NoIndex)>>
    /\ status' = "running"
    /\ events' = <<>>
    /\ nextAct' = 2
    /\ walks' = walks + 1
    /\ lastOp' = NoOp
    /\ UNCHANGED <<nodes, arrays, visitors, root, err, used, muts, impl, plugins>>

Next ==
    \/ Enter
    \/ Visit
    \/ NextField
    \/ FieldsDone
    \/ NextElem
    \/ ElemsDone
    \/ Exit
    \/ Restart

Spec == Init /\ [][Next]_vars

\* the first iteration of traverse (callback only, no exit, no path), run on
\* the same trees and visitor maps
InitFnOnly ==
    /\ nodes = nodes0
    /\ arrays = arrays0
    /\ visitors \in VisitorMaps
    /\ root \in Roots
    /\ stack = <<Frame(1, root, NoNode, 0, NoKey, NoIndex)>>
    /\ status = "running"
    /\ err = NoErr
    /\ events = <<>>
    /\ nextAct = 2
    /\ used = {}
    /\ muts = 0
    /\ walks = 1
    /\ lastOp = NoOp
    /\ impl = "fnonly"
    /\ PluginsIdle

NextFnOnly ==
    \/ Enter
    \/ Visit
    \/ NextField
    \/ FieldsDone
    \/ NextElem
    \/ ElemsDone
    \/ Restart

SpecFnOnly == InitFnOnly /\ [][NextFnOnly]_vars

\* traverse of part_006 with hooks that, besides calling the path's methods,
\* write to the tree directly
InitDirect ==
    /\ nodes = nodes0
    /\ arrays = arrays0
    /\ visitors \in VisitorMaps
    /\ root \in Roots
    /\ stack = <<Frame(1, root, NoNode, 0, NoKey, NoIndex)>>
    /\ status = "running"
    /\ err = NoErr
    /\ events = <<>>
    /\ nextAct = 2
    /\ used = {}
    /\ muts = 0
    /\ walks = 1
    /\ lastOp = NoOp
    /\ impl = "direct"
    /\ PluginsIdle

SpecDirect == InitDirect /\ [][Next]_vars

\* the iteration of traverse whose paths hold node, parent and parentPath
\* only; its hooks have no path method to call
InitParentPath ==
    /\ nodes = nodes0
    /\ arrays = arrays0
    /\ visitors \in VisitorMaps
    /\ root \in Roots
    /\ stack = <<Frame(1, root, NoNode, 0, NoKey, NoIndex)>>
    /\ status = "running"
    /\ err = NoErr
    /\ events = <<>>
    /\ nextAct = 2
    /\ used = {}
    /\ muts = 0
    /\ walks = 1
    /\ lastOp = NoOp
    /\ impl = "parentPath"
    /\ PluginsIdle

SpecParentPath == InitParentPath /\ [][Next]_vars

\* one walk of a tree whose types the schema knows, with hooks that do
\* nothing but call replaceWith / remove
InitCalls ==
    /\ nodes = nodes0
    /\ arrays = arrays0
    /\ visitors \in VisitorMaps
    /\ root \in {DemoRoot, SeqRoot}
    /\ stack = <<Frame(1, root, NoNode, 0, NoKey, NoIndex)>>
    /\ status = "running"
    /\ err = NoErr
    /\ events = <<>>
    /\ nextAct = 2
    /\ used = {}
    /\ muts = 0
    /\ walks = 1
    /\ lastOp = NoOp
    /\ impl = "calls"
    /\ PluginsIdle

NextCalls ==
    \/ Enter
    \/ Visit
    \/ NextField
    \/ FieldsDone
    \/ NextElem
    \/ ElemsDone
    \/ Exit

\* the call of traverse is synchronous: as long as a statement is left to
\* run, the engine runs it
SpecCalls == InitCalls /\ [][NextCalls]_vars /\ WF_vars(NextCalls)

\* no walk of traverse is under way
TraverseIdle ==
    /\ nodes = nodes0
    /\ arrays = arrays0
    /\ visitors = EmptyVisitors
    /\ root = DemoRoot
    /\ stack = <<>>
    /\ status = "idle"
    /\ err = NoErr
    /\ events = <<>>
    /\ nextAct = 1
    /\ used = {}
    /\ muts = 0
    /\ walks = 0
    /\ lastOp = NoOp
    /\ impl = "path"

traverseVars == <<nodes, arrays, visitors, root, stack, status, err, events,
                  nextAct, used, muts, walks, lastOp, impl>>

\* all but the linter is at rest, and stays so
OnlyLint == TraverseIdle /\ CompressIdle /\ ScopeIdle /\ MangleIdle /\ WrapperIdle
exceptLint == <<traverseVars, compressVars, scopeVars, mangleVars, wrapperVars>>

\* all but the compress plugin is at rest, and stays so
OnlyCompress == TraverseIdle /\ LintIdle /\ ScopeIdle /\ MangleIdle /\ WrapperIdle
exceptCompress == <<traverseVars, lintVars, scopeVars, mangleVars, wrapperVars>>

\* all but the interpreter is at rest, and stays so
OnlyScope == TraverseIdle /\ LintIdle /\ CompressIdle /\ MangleIdle /\ WrapperIdle
exceptScope == <<traverseVars, lintVars, compressVars, mangleVars, wrapperVars>>

\* all but base54 is at rest, and stays so
OnlyMangle == TraverseIdle /\ LintIdle /\ CompressIdle /\ ScopeIdle /\ WrapperIdle
exceptMangle == <<traverseVars, lintVars, compressVars, scopeVars, wrapperVars>>

\* all but noStackTraceWrapper is at rest, and stays so
OnlyWrapper == TraverseIdle /\ LintIdle /\ CompressIdle /\ ScopeIdle /\ MangleIdle
exceptWrapper == <<traverseVars, lintVars, compressVars, scopeVars, mangleVars>>

-----------------------------------------------------------------------------
(* Reading the heap and the log *)

Range(s) == {s[i] : i \in DOMAIN s}

\* the nodes the schema's child fields of n hold in heap (ns, as)
Children(ns, as, n) ==
    LET def == astDefinitionsMap(ns[n].type) IN
    UNION {LET v == ns[n].f[def.visitor[i]] IN
             CASE v.k = "node" -> {v.ref}
               [] v.k = "arr" -> Range(as[v.ref])
               [] OTHER -> {}
           : i \in DOMAIN def.visitor}

RECURSIVE Closure(_, _, _)
\* the nodes reachable from the set S through the schema's child fields
Closure(ns, as, S) ==
    LET T == S \cup UNION {Children(ns, as, n) : n \in S} IN
    IF T = S THEN S ELSE Closure(ns, as, T)

SchemaKnown(n) == astDefinitionsMap(nodes0[n].type).defined

\* number of `phase` phases the current walk ran for node n
CountEv(phase, n) ==
    Cardinality({i \in DOMAIN events : events[i].ph = phase /\ events[i].node = n})

\* activation a runs under activation b (a is b or a descendant call of b)
RECURSIVE IsUnder(_, _)
IsUnder(a, b) ==
    IF a = b THEN TRUE
    ELSE IF a = 0 \/ ~(\E i \in DOMAIN events : events[i].act = a) THEN FALSE
    ELSE IsUnder(events[CHOOSE i \in DOMAIN events : events[i].act = a].parentAct, b)

-----------------------------------------------------------------------------
(* C1 *)

-----------------------------------------------------------------------------
(* C2 *)

\* C2: an exit hook of an activation fires after the enter hook of the same
\* activation and after every hook (enter or exit) of the activations of its
\* children, replaced children included: no hook of the activation itself or
\* of a child is ever logged after it.
C2_ExitAfterEnterAndChildren ==
    \A j \in DOMAIN events :
        (events[j].ph = "exit" /\ events[j].hook) =>
            /\ \E i \in 1 .. (j - 1) :
                   events[i].ph = "enter" /\ events[i].act = events[j].act
            /\ \A i \in DOMAIN events :
                   (/\ events[i].hook
                    /\ i # j
                    /\ \/ events[i].act = events[j].act
                       \/ events[i].parentAct = events[j].act)
                   => i < j

\* a parent's exit hook has fired after the enter and exit hooks of a child
\* whose enter hook called replaceWith
C2_Witness ==
    \E j \in DOMAIN events :
        /\ events[j].ph = "exit" /\ events[j].hook
        /\ \E i1, i2 \in 1 .. (j - 1) :
              /\ events[i1].parentAct = events[j].act
              /\ events[i2].act = events[i1].act
              /\ events[i1].ph = "enter" /\ events[i1].op = "replaceWith"
              /\ events[i2].ph = "exit" /\ events[i2].hook

-----------------------------------------------------------------------------
(* C3 *)

\* C3 (as claimed): after an enter hook called replaceWith(M), the exit hook of
\* that activation is handed a path whose node is M, and every child the
\* activation walks into is a schema child of M.
C3_ReplacementIsWalked ==
    \A i \in DOMAIN events :
        (events[i].ph = "enter" /\ events[i].op = "replaceWith" /\ ~events[i].threw) =>
            \A j \in DOMAIN events :
                /\ (events[j].act = events[i].act /\ events[j].ph = "exit")
                      => events[j].pnode = events[i].m
                /\ (events[j].parentAct = events[i].act)
                      => events[j].node \in Children(nodes, arrays, events[i].m)

-----------------------------------------------------------------------------
(* C4 *)

\* C4 (as claimed): after an enter hook called remove(), nothing more is logged
\* for that activation (no exit phase) nor for any activation under it.
C4_RemovedIsLeft ==
    \A i \in DOMAIN events :
        (events[i].ph = "enter" /\ events[i].op = "remove" /\ ~events[i].threw) =>
            \A j \in DOMAIN events :
                j > i => ~IsUnder(events[j].act, events[i].act)

-----------------------------------------------------------------------------
(* C5, C7, C8: the heap right after the last replaceWith / remove call *)

\* the path of the last call pointed at index listKey of a sequence field
OpOnElement ==
    /\ lastOp.op \in {"remove", "replaceWith"}
    /\ lastOp.listKey # NoIndex
    /\ lastOp.preNodes[lastOp.parent].f[lastOp.key].k = "arr"
    /\ LET s == lastOp.preArrays[lastOp.preNodes[lastOp.parent].f[lastOp.key].ref]
       IN  lastOp.listKey < Len(s) /\ s[lastOp.listKey + 1] = lastOp.node

\* the path of the last call pointed at a singular field of a parent
OpOnSingular ==
    /\ lastOp.op \in {"remove", "replaceWith"}
    /\ lastOp.listKey = NoIndex
    /\ lastOp.parent # NoNode

\* the parent's field is still the same array object, now holding `after`,
\* and nothing else in the heap has changed
FieldIsSequence(after) ==
    LET pre == lastOp.preNodes[lastOp.parent].f[lastOp.key] IN
    /\ nodes = lastOp.preNodes
    /\ arrays = [lastOp.preArrays EXCEPT ![pre.ref] = after]

\* C5 (as claimed): remove() on the path of element i of a sequence of length n
\* leaves the field a sequence of length n-1, the elements after i shifted
\* down by one, and changes nothing else.
C5_RemoveSplicesElement ==
    (OpOnElement /\ lastOp.op = "remove") =>
        LET s == lastOp.preArrays[lastOp.preNodes[lastOp.parent].f[lastOp.key].ref]
            i == lastOp.listKey
        IN  FieldIsSequence(SubSeq(s, 1, i) \o SubSeq(s, i + 2, Len(s)))

\* C7 (as claimed): replaceWith(M) on the path of element i of a sequence
\* leaves the field a sequence of the same length whose element i is M, the
\* other elements unchanged.
C7_ReplaceSetsElement ==
    (OpOnElement /\ lastOp.op = "replaceWith") =>
        LET s == lastOp.preArrays[lastOp.preNodes[lastOp.parent].f[lastOp.key].ref]
        IN  FieldIsSequence([s EXCEPT ![lastOp.listKey + 1] = lastOp.m])

\* C8: on a path reached through a singular field, remove() returns having
\* written null into that field of the parent and replaceWith(M) having
\* written M into it; no other field, node or array has changed.
C8_SingularFieldOnly ==
    OpOnSingular =>
        /\ ~lastOp.threw
        /\ arrays = lastOp.preArrays
        /\ nodes = [lastOp.preNodes EXCEPT ![lastOp.parent].f[lastOp.key] =
                        IF lastOp.op = "remove" THEN Null ELSE NodeV(lastOp.m)]

\* remove() has just run on a singular field, after a replaceWith on a
\* singular field earlier in the walk
C8_Witness ==
    /\ OpOnSingular
    /\ lastOp.op = "remove"
    /\ nodes[lastOp.parent].f[lastOp.key] = Null
    /\ \E i \in DOMAIN events :
          /\ events[i].op = "replaceWith"
          /\ events[i].listKey = NoIndex
          /\ events[i].parent # NoNode
          /\ nodes[events[i].parent].f[events[i].key] = NodeV(events[i].m)

-----------------------------------------------------------------------------
(* C6 *)

\* C6 (as claimed): when a hook removed an element of a sequence and the walk
\* has returned, every other element of that sequence that was not itself
\* removed has been entered exactly once.
C6_SiblingsVisitedOnce ==
    (status = "done" /\ walks = 1) =>
        \A i \in DOMAIN events :
            (/\ events[i].op = "remove"
             /\ events[i].listKey # NoIndex
             /\ nodes0[events[i].parent].f[events[i].key].k = "arr")
            => \A n \in Range(arrays0[nodes0[events[i].parent].f[events[i].key].ref]) :
                  \/ \E j \in DOMAIN events :
                        events[j].node = n /\ events[j].op = "remove"
                  \/ CountEv("enter", n) = 1

-----------------------------------------------------------------------------
(* C9 *)

\* C9 (as claimed): when the walk reaches a singular field (one that held a
\* single node before any hook ran) that now holds null, what remove() leaves
\* behind, no error is raised: traverse never throws on reading that field.
C9_TombstoneSkipped ==
    ~(/\ status = "error"
      /\ err.what = "type of null"
      /\ nodes0[err.node].f[err.key].k = "node"
      /\ nodes[err.node].f[err.key] = Null)

-----------------------------------------------------------------------------
(* C10 *)

\* the log holds a phase of a node whose type has no schema entry
UnknownReached ==
    \E i \in DOMAIN events : ~astDefinitionsMap(nodes[events[i].node].type).defined

\* C10: once a node without schema entry has been entered, the walk never
\* returns normally, nothing is logged after that node's enter phase (no
\* sibling, no pending exit of an ancestor), and the walk is either about to
\* evaluate definition.visitor for that node or has failed with an error.
C10_UnknownTypeAborts ==
    \A i \in DOMAIN events :
        ~astDefinitionsMap(nodes[events[i].node].type).defined =>
            /\ i = Len(events)
            /\ events[i].ph = "enter"
            /\ status # "done"
            /\ status = "running" =>
                  /\ Top.act = events[i].act
                  /\ Stmts[Top.ph] = "children"
                  /\ Top.sub = "start"
            /\ status = "error" => stack = <<>>

\* the walk has failed on the StringLiteral with activations of three
\* ancestors pending and a later sibling unvisited
C10_Witness ==
    /\ UnknownReached
    /\ status = "error"
    /\ err.what = "visitor of undefined"
    /\ root = StrRoot
    /\ Len(events) >= 4

-----------------------------------------------------------------------------
(* C11 *)

\* C11 (as claimed): the schema lookup is settled before any hook of the node
\* runs, so no hook is ever invoked for a node whose type has no schema entry.
C11_NoHookWithoutSchema ==
    \A i \in DOMAIN events :
        events[i].hook => astDefinitionsMap(nodes[events[i].node].type).defined

-----------------------------------------------------------------------------
(* C12 *)

\* C12: for a type registered as a bare function, a phase of a node of that
\* type calls the function if and only if it is the enter phase; the
\* activation has a single enter phase, and it precedes every phase of the
\* activations of the node's children.
C12_FunctionIsEnterOnly ==
    \A i \in DOMAIN events :
        visitors[nodes[events[i].node].type] = "fn" =>
            /\ events[i].hook <=> (events[i].ph = "enter")
            /\ \A j \in DOMAIN events :
                  /\ (events[j].act = events[i].act /\ events[j].ph = "enter"
                      /\ events[i].ph = "enter") => j = i
                  /\ (events[j].parentAct = events[i].act /\ events[i].ph = "enter")
                        => i < j

\* a node registered as a bare function has been entered with the function
\* called, a child of it visited, and exited without a call
C12_Witness ==
    \E i, j, k \in DOMAIN events :
        /\ visitors[nodes[events[i].node].type] = "fn"
        /\ events[i].ph = "enter" /\ events[i].hook
        /\ events[j].parentAct = events[i].act
        /\ events[k].act = events[i].act /\ events[k].ph = "exit" /\ ~events[k].hook

-----------------------------------------------------------------------------
(* C13 *)

\* C13 (as claimed): for a type registered as an object {enter?, exit?}, the
\* enter phase of a node of that type calls enter exactly when it is present,
\* the exit phase calls exit exactly when it is present, and a walk that has
\* returned has run the exit phase of every activation it entered.
C13_ObjectMembersInvoked ==
    \A i \in DOMAIN events :
        LET shape == visitors[nodes[events[i].node].type] IN
        shape \in {"enter", "exit", "both"} =>
            /\ events[i].ph = "enter" => (events[i].hook <=> HasEnter(shape))
            /\ events[i].ph = "exit" => (events[i].hook <=> HasExit(shape))
            /\ (status = "done" /\ events[i].ph = "enter") =>
                  \E j \in DOMAIN events :
                      events[j].act = events[i].act /\ events[j].ph = "exit"

-----------------------------------------------------------------------------
(* C14 *)

\* C14: a phase of a node whose type the visitor map does not name calls no
\* hook; and when a walk in which no hook touched the tree has returned,
\* every node of the schema closure of the root has been entered and exited,
\* with its type's hooks called, whatever the visitor map says about the
\* types of its ancestors.
C14_AbsentTypeWalkedThrough ==
    /\ \A i \in DOMAIN events :
          visitors[nodes[events[i].node].type] = "none" => ~events[i].hook
    /\ (status = "done" /\ muts = 0) =>
          \A n \in Closure(nodes0, arrays0, {root}) :
              /\ \E i \in DOMAIN events :
                    /\ events[i].node = n /\ events[i].ph = "enter"
                    /\ events[i].hook <=> HasEnter(visitors[nodes[n].type])
              /\ \E i \in DOMAIN events :
                    /\ events[i].node = n /\ events[i].ph = "exit"
                    /\ events[i].hook <=> HasExit(visitors[nodes[n].type])

\* the demo tree has been walked with only Identifier registered: the hooks
\* of the Identifier under three unregistered ancestors have both been called
C14_Witness ==
    /\ status = "done"
    /\ root = DemoRoot
    /\ muts = 0
    /\ \A t \in {"Program", "VariableDeclaration", "VariableDeclarator"} :
          visitors[t] = "none"
    /\ \E i, j \in DOMAIN events :
          /\ nodes[events[i].node].type = "Identifier"
          /\ nodes[events[i].parent].type = "VariableDeclarator"
          /\ events[i].ph = "enter" /\ events[i].hook
          /\ events[j].act = events[i].act
          /\ events[j].ph = "exit" /\ events[j].hook

-----------------------------------------------------------------------------
(* C15 *)

\* position of field `key` in the schema entry of `type`
FieldIndex(type, key) ==
    CHOOSE i \in DOMAIN astDefinitionsMap(type).visitor :
        astDefinitionsMap(type).visitor[i] = key

\* C15: of two child activations of the same activation, the one logged first
\* was reached through an earlier field of the parent's schema entry or, in
\* the same sequence field, through a smaller index, and it has run its exit
\* phase before anything of the later one is logged.
C15_SchemaOrder ==
    \A i, j \in DOMAIN events :
        (/\ i < j
         /\ events[i].parentAct # 0
         /\ events[i].parentAct = events[j].parentAct
         /\ events[i].act # events[j].act)
        => LET type == nodes[events[i].parent].type
               fi == FieldIndex(type, events[i].key)
               fj == FieldIndex(type, events[j].key)
           IN  /\ fi <= fj
               /\ fi = fj => events[i].listKey < events[j].listKey
               /\ \E k \in i .. (j - 1) :
                     events[k].act = events[i].act /\ events[k].ph = "exit"

\* the init of a declarator has been entered after its id has exited
C15_Witness ==
    \E i, j \in DOMAIN events :
        /\ i < j
        /\ events[i].parentAct = events[j].parentAct
        /\ events[i].key = "id" /\ events[i].ph = "exit"
        /\ events[j].key = "init" /\ events[j].ph = "enter"

-----------------------------------------------------------------------------
(* C16 *)

\* C16 (as claimed): once a hook has asked for the walk to stop, no enter
\* hook is called any more for a node that had not been entered before.
C16_StopEndsVisits ==
    \A i, j \in DOMAIN events :
        (events[i].op = "stop" /\ i < j /\ events[j].ph = "enter") => ~events[j].hook

-----------------------------------------------------------------------------
(* C17 *)

\* C17: remove() or replaceWith() called on the path of the root (no parent)
\* throws; the heap is what it was before the call and the error has left
\* traverse, unwinding every activation.
C17_RootMutationFails ==
    (lastOp.op \in {"remove", "replaceWith"} /\ lastOp.parent = NoNode) =>
        /\ lastOp.threw
        /\ nodes = lastOp.preNodes
        /\ arrays = lastOp.preArrays
        /\ status = "error"
        /\ err.what = "mutation"
        /\ stack = <<>>

\* a hook of the root has called replaceWith on the root's path, in the exit
\* phase, after the whole tree was walked
C17_Witness ==
    /\ lastOp.op = "replaceWith"
    /\ lastOp.parent = NoNode
    /\ lastOp.node = root
    /\ lastOp.ph = "exit"
    /\ status = "error"

-----------------------------------------------------------------------------
(* C18 *)

\* the last call was made on a path whose index lies beyond the end of the
\* array its parent's field holds
OpOnStaleIndex ==
    /\ lastOp.op \in {"remove", "replaceWith"}
    /\ lastOp.listKey # NoIndex
    /\ lastOp.preNodes[lastOp.parent].f[lastOp.key].k = "arr"
    /\ lastOp.listKey >=
          Len(lastOp.preArrays[lastOp.preNodes[lastOp.parent].f[lastOp.key].ref])

\* C18 (as claimed): remove() or replaceWith() on a path whose stored index is
\* out of range for the current sequence throws and leaves the heap as it
\* was: nothing removed, replaced or appended.
C18_StaleIndexRejected ==
    OpOnStaleIndex =>
        /\ lastOp.threw
        /\ nodes = lastOp.preNodes
        /\ arrays = lastOp.preArrays

-----------------------------------------------------------------------------
(* C19 *)

\* C19: when an enter or exit hook throws, the walk ends there with that very
\* error: the throwing call is the last hook call of the log (no pending
\* exit hook of an ancestor runs, nothing is tried again), no activation is
\* left, and the caller gets the error the hook threw.
C19_HookErrorPropagates ==
    \A i \in DOMAIN events :
        events[i].threw =>
            /\ i = Len(events)
            /\ status = "error"
            /\ stack = <<>>
            /\ err.what = (IF events[i].op = "throw" THEN "hook" ELSE "mutation")
            /\ err.node = events[i].node
            /\ err.key = events[i].key

\* a hook of an inner node threw while the exit hook of the root was pending
C19_Witness ==
    /\ events # <<>>
    /\ events[Len(events)].op = "throw"
    /\ events[Len(events)].parentAct # 0
    /\ HasExit(visitors[nodes[root].type])
    /\ CountEv("enter", root) = 1
    /\ CountEv("exit", root) = 0
    /\ status = "error"

-----------------------------------------------------------------------------
(* C20 *)

\* C20 (as claimed): when the enter hook of an activation replaced its node
\* by a node M of another type, the exit hook called for that activation is
\* the one registered for M's type: an exit hook is called exactly when the
\* visitor has one for M's type, whatever it has for the original type.
C20_ExitHookOfReplacement ==
    \A i \in DOMAIN events : \A j \in DOMAIN events :
        ( /\ events[i].ph = "enter"
          /\ events[i].op = "replaceWith"
          /\ ~events[i].threw
          /\ nodes[events[i].m].type # nodes[events[i].node].type
          /\ events[j].ph = "exit"
          /\ events[j].act = events[i].act )
        => (events[j].hook <=> HasExit(visitors[nodes[events[i].m].type]))

-----------------------------------------------------------------------------
(* The eq-lint plugin: linter/plugin/eq-lint.js *)

\* number of nodes of the linted file the visitor is called for
FileLen == 2

\* the operand nodes of the comparisons of the linted files
OperandTypes == {"Identifier", "NumericLiteral", "StringLiteral"}

\* path.isLiteral()
isLiteral(node) == node.type \in {"NumericLiteral", "StringLiteral"}

\* typeof node.value: an Identifier has no value
typeofValue(node) ==
    CASE node.type = "NumericLiteral" -> "number"
      [] node.type = "StringLiteral" -> "string"
      [] OTHER -> "undefined"

BinaryOperators == {"==", "!=", "===", "<"}

BinaryExpressions ==
    [operator : BinaryOperators,
     left : [type : OperandTypes],
     right : [type : OperandTypes]]

\* pre(file), and Babel about to visit the first BinaryExpression of the file
InitEqLint ==
    /\ OnlyLint
    /\ code \in [1..FileLen -> BinaryExpressions]
    /\ ast = code
    /\ errors = <<>>
    /\ opts \in [fix : BOOLEAN]
    /\ pos = 1

\* lines 22-52: the visitor on the next BinaryExpression of the file.
\* Error.stackTraceLimit is set to 0 and back within the step.
BinaryExpression ==
    /\ pos <= Len(ast)
    /\ LET node == ast[pos]
           operator == node.operator
       IN  IF /\ operator \in {"==", "!="}
              /\ isLiteral(node.left)
              /\ isLiteral(node.right)
              /\ typeofValue(node.left) = typeofValue(node.right)
           THEN /\ errors' = Append(errors,
                                    [at |-> pos, replace |-> operator,
                                     with |-> operator \o "="])
                /\ ast' = IF opts.fix
                          THEN [ast EXCEPT ![pos].operator = @ \o "="]
                          ELSE ast
           ELSE UNCHANGED <<errors, ast>>
    /\ pos' = pos + 1
    /\ UNCHANGED <<code, opts, exceptLint>>

NextEqLint == BinaryExpression

SpecEqLint == InitEqLint /\ [][NextEqLint]_vars

\* an error of the list is about the k-th node
ReportedAt(k) == \E e \in DOMAIN errors : errors[e].at = k

\* both operands are literals with values of one type
SameTypeLiterals(node) ==
    /\ node.left.type \in {"NumericLiteral", "StringLiteral"}
    /\ node.left.type = node.right.type

\* C21 (as claimed): once the file is linted, a ==/!= comparison of two
\* literals of the same type is not reported, every other ==/!= comparison
\* is reported once, no other operator is reported; with fix the operator of
\* exactly the reported comparisons has become ===/!==, all else is as parsed.
C21_EqLintVerdicts ==
    pos > Len(code) =>
        \A k \in DOMAIN code :
            LET flagged == code[k].operator \in {"==", "!="} /\ ~SameTypeLiterals(code[k])
            IN  /\ ReportedAt(k) <=> flagged
                /\ Cardinality({e \in DOMAIN errors : errors[e].at = k}) <= 1
                /\ ast[k].left = code[k].left
                /\ ast[k].right = code[k].right
                /\ ast[k].operator =
                      (IF flagged /\ opts.fix
                       THEN (IF code[k].operator = "==" THEN "===" ELSE "!==")
                       ELSE code[k].operator)

-----------------------------------------------------------------------------
(* The for-direction plugin: linter/plugin/for-direction-lint.js *)

\* what reading .operator gives for a node that has none, or through ?. for
\* a part of the loop that is absent (null)
NoOperator == "undefined"

\* node.test: absent, an expression without operator, or a comparison
ForTests ==
    {[type |-> "null", operator |-> NoOperator],
     [type |-> "Identifier", operator |-> NoOperator]}
    \cup [type : {"BinaryExpression"}, operator : {"<", "<=", ">", ">=", "!=", "==="}]

\* node.update: absent, a call, an update expression or an assignment
ForUpdates ==
    {[type |-> "null", operator |-> NoOperator],
     [type |-> "CallExpression", operator |-> NoOperator]}
    \cup [type : {"UpdateExpression"}, operator : {"++", "--"}]
    \cup [type : {"AssignmentExpression"}, operator : {"+="}]

ForStatements == [test : ForTests, update : ForUpdates]

\* pre(file), and Babel about to visit the first ForStatement of the file
InitForDirection ==
    /\ OnlyLint
    /\ code \in [1..FileLen -> ForStatements]
    /\ ast = code
    /\ errors = <<>>
    /\ opts = [fix |-> FALSE]
    /\ pos = 1

\* lines 34-39: undefined when the test operator is none of the four
shouldUpdateOperator(testOperator) ==
    IF testOperator \in {"<", "<="} THEN "++"
    ELSE IF testOperator \in {">", ">="} THEN "--"
    ELSE NoOperator

\* lines 21-57: the visitor on the next ForStatement of the file.
\* Error.stackTraceLimit is set to 0 and back within the step.
ForStatement ==
    /\ pos <= Len(ast)
    /\ LET testOperator == ast[pos].test.operator
           updateOperator == ast[pos].update.operator
       IN  IF testOperator = NoOperator \/ updateOperator = NoOperator
           THEN UNCHANGED errors
           ELSE IF shouldUpdateOperator(testOperator) # updateOperator
                THEN errors' = Append(errors,
                                      [at |-> pos, test |-> testOperator,
                                       should |-> shouldUpdateOperator(testOperator),
                                       update |-> updateOperator])
                ELSE UNCHANGED errors
    /\ pos' = pos + 1
    /\ UNCHANGED <<code, ast, opts, exceptLint>>

NextForDirection == ForStatement

SpecForDirection == InitForDirection /\ [][NextForDirection]_vars

\* C22 (as claimed): once the file is linted, a loop is reported exactly when
\* it has an update operator and its test operator is < or <= with an update
\* other than ++, or > or >= with an update other than --; a loop with any
\* other test operator, or without test or update operator, is not reported.
C22_ForDirectionVerdicts ==
    pos > Len(code) =>
        \A k \in DOMAIN code :
            ReportedAt(k) <=>
                /\ code[k].update.operator # NoOperator
                /\ \/ code[k].test.operator \in {"<", "<="} /\ code[k].update.operator # "++"
                   \/ code[k].test.operator \in {">", ">="} /\ code[k].update.operator # "--"

-----------------------------------------------------------------------------
(* The compress plugin, BlockStatement visitor: mangle-compress/plugin/compress.js *)

\* number of statements of the block
BlockLen == 4

\* "let" stands for a let or const declaration, "expr" for any other statement
StatementKinds == {"return", "break", "function", "var", "let", "expr"}

\* path.isCompletionStatement()
isCompletionStatement(kind) == kind \in {"return", "throw", "break", "continue"}

\* a test of the declaration that does not look at its kind
canExistAnyDeclaration(kind) == kind \in {"function", "var", "let"}

\* lines 19-22
canExistAfterCompletion(kind) == kind \in {"function", "var"}

\* statementPaths[i].remove() of Babel: the statement leaves node.body, the
\* keys of the paths after it follow
removeStatement(b, n) == SelectSeq(b, LAMBDA x : x # n)

\* line 34: Babel hands a block to the visitor
InitCompress ==
    /\ OnlyCompress
    /\ statementPaths \in [1..BlockLen -> StatementKinds]
    /\ body = [k \in 1..BlockLen |-> k]
    /\ loopI = 0
    /\ purge = FALSE

\* lines 38-50: one iteration of the loop (statementPaths[i] is the path of
\* statement number i + 1)
BlockStatement ==
    /\ loopI < Len(statementPaths)
    /\ LET kind == statementPaths[loopI + 1] IN
         IF isCompletionStatement(kind)
         THEN /\ purge' = TRUE
              /\ UNCHANGED body
         ELSE /\ body' = IF purge /\ ~canExistAfterCompletion(kind)
                         THEN removeStatement(body, loopI + 1)
                         ELSE body
              /\ UNCHANGED purge
    /\ loopI' = loopI + 1
    /\ UNCHANGED <<statementPaths, exceptCompress>>

NextCompress == BlockStatement

SpecCompress == InitCompress /\ [][NextCompress]_vars

\* the number of the first completion statement of the block, or one past
\* the block's end
FirstCompletion ==
    LET C == {k \in DOMAIN statementPaths :
                 statementPaths[k] \in {"return", "throw", "break", "continue"}}
    IN  IF C = {} THEN Len(statementPaths) + 1
        ELSE CHOOSE k \in C : \A c \in C : k <= c

\* what the block must lose
Purged(k) ==
    /\ k > FirstCompletion
    /\ statementPaths[k] \notin {"function", "var", "return", "throw", "break", "continue"}

-----------------------------------------------------------------------------
(* C24 *)

\* a hook of the top activation is about to be called
HookDue ==
    /\ status = "running"
    /\ stack # <<>>
    /\ \/ Stmts[Top.ph] = "enter" /\ HasEnter(visitors[nodes[Top.node].type])
       \/ Stmts[Top.ph] = "exit" /\ HasExit(visitors[nodes[Top.node].type])

\* the path of activation fr describes the tree as it is now
PathConsistent(fr) ==
    IF fr.parent = NoNode
    THEN fr.parentPath = 0 /\ fr.key = NoKey /\ fr.listKey = NoIndex
    ELSE /\ \E a \in DOMAIN stack :
               stack[a].act = fr.parentPath /\ stack[a].pnode = fr.parent
         /\ LET held == nodes[fr.parent].f[fr.key] IN
              IF fr.listKey = NoIndex
              THEN held = NodeV(fr.pnode)
              ELSE /\ held.k = "arr"
                   /\ fr.listKey < Len(arrays[held.ref])
                   /\ arrays[held.ref][fr.listKey + 1] = fr.pnode

\* C24 (as claimed): whenever a hook is about to be called, the path it gets
\* agrees with the tree of that moment: the parent's field (at the index, if
\* any) holds path.node, path.parentPath.node is path.parent, and the root's
\* path has no parent, parentPath, key or index.  (A path whose own hook
\* called remove() is left aside: it has no place in the tree any more.)
C24_PathConsistent ==
    (HookDue /\ ~\E e \in DOMAIN events :
                    events[e].act = Top.act /\ events[e].op = "remove")
        => PathConsistent(Top)

-----------------------------------------------------------------------------
(* C25 *)

\* the activations reached from path a by following parentPath, nearest
\* first; 0 stands for a path whose activation is no longer on the stack
RECURSIVE ParentPaths(_, _)
ParentPaths(a, fuel) ==
    IF a = 0 \/ fuel = 0 THEN <<>>
    ELSE IF \E j \in DOMAIN stack : stack[j].act = a
         THEN LET fr == stack[CHOOSE j \in DOMAIN stack : stack[j].act = a]
              IN  <<a>> \o ParentPaths(fr.parentPath, fuel - 1)
         ELSE <<0>>

\* activation a has passed its enter statement and not reached the end of
\* its exit statement
Open(a) ==
    /\ \E e \in DOMAIN events : events[e].act = a /\ events[e].ph = "enter"
    /\ ~\E e \in DOMAIN events : events[e].act = a /\ events[e].ph = "exit"

\* C25: from the path of the activation at depth d (the root at depth 0),
\* parentPath gives exactly d further paths, the nearest ancestor first and
\* the root's path, which has no parentPath, last; no path comes twice, the
\* node of each is the parent of the one before, and each belongs to an
\* activation that was entered and has not exited.
C25_AncestorChain ==
    \A j \in DOMAIN stack :
        LET chain == ParentPaths(stack[j].parentPath, Len(stack) + 1) IN
          /\ Len(chain) = j - 1
          /\ \A m \in DOMAIN chain :
                /\ chain[m] = stack[j - m].act
                /\ Open(chain[m])
          /\ \A m, n \in DOMAIN chain : m # n => chain[m] # chain[n]
          /\ j > 1 => stack[j - 1].pnode = stack[j].parent
          /\ stack[1].parentPath = 0

\* the exit hook of an Identifier three levels down is about to walk its chain
C25_Witness ==
    /\ HookDue
    /\ Len(stack) = 4
    /\ Stmts[Top.ph] = "exit"
    /\ nodes[Top.node].type = "Identifier"
    /\ Len(ParentPaths(Top.parentPath, 5)) = 3

-----------------------------------------------------------------------------
(* C26 *)

\* position in the log of the enter / exit event of activation a (0: none)
EventAt(phase, a) ==
    IF \E e \in DOMAIN events : events[e].act = a /\ events[e].ph = phase
    THEN CHOOSE e \in DOMAIN events : events[e].act = a /\ events[e].ph = phase
    ELSE 0

\* C26: as long as nothing was thrown, the enter and exit events of a walk
\* are well nested: no activation is entered or exited twice, an exit comes
\* after its enter, two activations are either disjoint or one lies within
\* the other (exits in the reverse order of the enters), the activations
\* entered and not exited are exactly the ones on the call chain of the node
\* being processed, each called for a child of the one below, and when
\* traverse has returned every activation entered was exited.
C26_WellNested ==
    status \in {"running", "done"} =>
        LET Acts == 1..(nextAct - 1) IN
          /\ \A a \in Acts : \A phase \in {"enter", "exit"} :
                Cardinality({e \in DOMAIN events :
                                events[e].act = a /\ events[e].ph = phase}) <= 1
          /\ \A a \in Acts : EventAt("exit", a) # 0 =>
                EventAt("enter", a) # 0 /\ EventAt("enter", a) < EventAt("exit", a)
          /\ \A a, b \in Acts :
                (EventAt("enter", a) # 0 /\ EventAt("enter", a) < EventAt("enter", b)) =>
                    \/ EventAt("exit", a) # 0 /\ EventAt("exit", a) < EventAt("enter", b)
                    \/ EventAt("exit", a) = 0
                    \/ EventAt("exit", b) # 0 /\ EventAt("exit", b) < EventAt("exit", a)
          /\ \A a \in Acts :
                Open(a) <=> \E j \in DOMAIN stack :
                               stack[j].act = a /\ Stmts[stack[j].ph] # "enter"
          /\ \A j \in DOMAIN stack :
                /\ Stmts[stack[j].ph] = "enter" => j = Len(stack)
                /\ j > 1 => stack[j].parent = stack[j - 1].node
          /\ status = "done" =>
                \A a \in Acts : EventAt("enter", a) # 0 /\ EventAt("exit", a) # 0

\* the demo tree was walked to the end, without error, by hooks that
\* replaced a node and removed another
C26_Witness ==
    /\ status = "done"
    /\ root = DemoRoot
    /\ walks = 1
    /\ Len(events) = 10
    /\ \E e \in DOMAIN events : events[e].op = "replaceWith"
    /\ \E e \in DOMAIN events : events[e].op = "remove"

-----------------------------------------------------------------------------
(* C27 *)

-----------------------------------------------------------------------------
(* The interpreter's Scope: interpreter/index.js *)

\* number of scopes on the parent chain
ScopeDepth == 2

ScopeNames == {"a", "b"}

\* the values bound: undefined, a falsy number and a truthy one
ScopeValues == {"undefined", "0", "2"}

\* this.declarations[name] of scope d: a property never set reads as undefined
getLocal(d, name) == IF name \in DOMAIN d THEN d[name] ELSE "undefined"

\* lines 36-42; the parent of scope k is scope k - 1, the outermost has none
RECURSIVE get(_, _, _)
get(ss, k, name) ==
    LET res == getLocal(ss[k], name) IN
    IF res = "undefined" /\ k > 1 THEN get(ss, k - 1, name) ELSE res

\* the interpreter starts with the global scope, nothing declared
InitScope ==
    /\ OnlyScope
    /\ scopes = << <<>> >>
    /\ lookup = [scope |-> 0, name |-> "", res |-> "undefined"]

\* line 101: new Scope(scope), for the call of a function declared in the
\* innermost scope
NewScope ==
    /\ Len(scopes) < ScopeDepth
    /\ scopes' = Append(scopes, <<>>)
    /\ lookup' = [scope |-> 0, name |-> "", res |-> "undefined"]
    /\ UNCHANGED exceptScope

\* lines 28-30: scope k binds name to value (a declaration, or a parameter
\* bound to args[index], which is undefined for a missing argument)
ScopeSet ==
    \E k \in DOMAIN scopes : \E name \in ScopeNames : \E value \in ScopeValues :
        /\ scopes' = [scopes EXCEPT ![k] =
                         [n \in DOMAIN @ \cup {name} |-> IF n = name THEN value ELSE @[n]]]
        /\ lookup' = [scope |-> 0, name |-> "", res |-> "undefined"]
        /\ UNCHANGED exceptScope

\* scope k is asked for name
ScopeGet ==
    \E k \in DOMAIN scopes : \E name \in ScopeNames :
        /\ lookup' = [scope |-> k, name |-> name, res |-> get(scopes, k, name)]
        /\ UNCHANGED <<scopes, exceptScope>>

NextScope == NewScope \/ ScopeSet \/ ScopeGet

SpecScope == InitScope /\ [][NextScope]_vars

\* the scopes from k outwards that declare name, by their number
Declaring(k, name) == {j \in 1..k : name \in DOMAIN scopes[j]}

\* C28 (as claimed): get(name) on a scope gives the value bound in the
\* nearest scope of its parent chain that declares the name, whatever that
\* value is (undefined and falsy values shadow too), and undefined when no
\* scope of the chain declares it.
C28_NearestBinding ==
    lookup.scope # 0 =>
        LET D == Declaring(lookup.scope, lookup.name) IN
          lookup.res = (IF D = {} THEN "undefined"
                        ELSE scopes[CHOOSE j \in D : \A d \in D : d <= j][lookup.name])

-----------------------------------------------------------------------------
(* base54 of the mangle plugin: mangle-compress/plugin/mangle.js *)

\* number of base-54 digits of the numbers base54 is called with
MaxDigits == 3

\* line 23, character by character
DIGITS ==
    <<"a", "b", "c", "d", "e", "f", "g", "h", "i", "j", "k", "l",
      "m", "n", "o", "p", "q", "r", "s", "t", "u", "v", "w", "x",
      "y", "z", "A", "B", "C", "D", "E", "F", "G", "H", "I", "J",
      "K", "L", "M", "N", "O", "P", "Q", "R", "S", "T", "U", "V",
      "W", "X", "Y", "Z", "$", "_">>

\* DIGITS.charAt(n)
charAt(n) == DIGITS[n + 1]

\* the numbers of at most d digits whose digits are the first two or the
\* last one of the 54
RECURSIVE NumsUpTo(_)
NumsUpTo(d) ==
    IF d = 0 THEN {0}
    ELSE {54 * n + v : n \in NumsUpTo(d - 1), v \in {0, 1, 53}}

\* a loop test that stops one short
whileAboveOne(n) == n > 1

\* line 32: while (num > 0)
while(n) == n > 0

\* base54 is about to be called with two numbers, one call after the other
InitMangle ==
    /\ OnlyMangle
    /\ arg \in [1..2 -> NumsUpTo(MaxDigits)]
    /\ num = arg
    /\ ret = [c \in 1..2 |-> <<>>]
    /\ returned = [c \in 1..2 |-> FALSE]

\* lines 27-33: one iteration of the do-while loop of the call under way,
\* with the test at its end and the return after the last one
base54 ==
    \E c \in 1..2 :
        /\ ~returned[c]
        /\ \A b \in 1..(c - 1) : returned[b]
        /\ ret' = [ret EXCEPT ![c] = <<charAt(num[c] % 54)>> \o @]
        /\ num' = [num EXCEPT ![c] = @ \div 54]
        /\ returned' = [returned EXCEPT ![c] = ~while(num[c] \div 54)]
        /\ UNCHANGED <<arg, exceptMangle>>

NextMangle == base54

SpecMangle == InitMangle /\ [][NextMangle]_vars

\* a-z, A-Z, $ and _
Alphabet ==
    {"a", "b", "c", "d", "e", "f", "g", "h", "i", "j", "k", "l",
     "m", "n", "o", "p", "q", "r", "s", "t", "u", "v", "w", "x",
     "y", "z", "A", "B", "C", "D", "E", "F", "G", "H", "I", "J",
     "K", "L", "M", "N", "O", "P", "Q", "R", "S", "T", "U", "V",
     "W", "X", "Y", "Z", "$", "_"}

\* C29: two calls with different numbers return different names; 0 gives
\* "a", 53 gives "_", 54 gives "ba"; and every name returned is a non-empty
\* string over the 54 characters a-z, A-Z, $, _.
C29_Base54Injective ==
    /\ Cardinality(Alphabet) = 54
    /\ (returned[1] /\ returned[2] /\ arg[1] # arg[2]) => ret[1] # ret[2]
    /\ \A c \in 1..2 : returned[c] =>
          /\ ret[c] # <<>>
          /\ \A p \in DOMAIN ret[c] : ret[c][p] \in Alphabet
          /\ arg[c] = 0 => ret[c] = <<"a">>
          /\ arg[c] = 53 => ret[c] = <<"_">>
          /\ arg[c] = 54 => ret[c] = <<"b", "a">>

\* base54(0) and base54(54) have returned "a" and "ba"
C29_Witness ==
    /\ arg = <<0, 54>>
    /\ returned = <<TRUE, TRUE>>
    /\ ret = << <<"a">>, <<"b", "a">> >>

-----------------------------------------------------------------------------
(* noStackTraceWrapper of the linter's utils: part_010 *)

\* number of calls of noStackTraceWrapper
MaxCalls == 3

\* what the callback of a call does; "absent": no callback was passed
Callbacks == {"absent", "returns", "throws"}

\* the program is about to call noStackTraceWrapper MaxCalls times
InitWrapper ==
    /\ OnlyWrapper
    /\ stackTraceLimit \in {0, 1, 10}
    /\ tmp = stackTraceLimit
    /\ cb \in [1..MaxCalls -> Callbacks]
    /\ at = "idle"
    /\ before = stackTraceLimit

\* line 36: const tmp = Error.stackTraceLimit, at the start of the next call
SaveLimit ==
    /\ at = "idle"
    /\ cb # <<>>
    /\ tmp' = stackTraceLimit
    /\ before' = stackTraceLimit
    /\ at' = "saved"
    /\ UNCHANGED <<stackTraceLimit, cb, exceptWrapper>>

\* line 38: Error.stackTraceLimit = 0
ZeroLimit ==
    /\ at = "saved"
    /\ stackTraceLimit' = 0
    /\ at' = "zeroed"
    /\ UNCHANGED <<tmp, cb, before, exceptWrapper>>

\* line 40: cb && cb(Error); what cb throws leaves noStackTraceWrapper at
\* once, there is no try around the call
CallCallback ==
    /\ at = "zeroed"
    /\ IF Head(cb) = "throws"
       THEN at' = "idle" /\ cb' = Tail(cb)
       ELSE at' = "called" /\ cb' = cb
    /\ UNCHANGED <<stackTraceLimit, tmp, before, exceptWrapper>>

\* line 42: Error.stackTraceLimit = tmp, and the call returns
RestoreLimit ==
    /\ at = "called"
    /\ stackTraceLimit' = tmp
    /\ at' = "idle"
    /\ cb' = Tail(cb)
    /\ UNCHANGED <<tmp, before, exceptWrapper>>

NextWrapper == SaveLimit \/ ZeroLimit \/ CallCallback \/ RestoreLimit

SpecWrapper == InitWrapper /\ [][NextWrapper]_vars

\* C30 (as claimed): when a call of noStackTraceWrapper has ended, by return
\* or by throw, Error.stackTraceLimit is what it was when the call began; a
\* limit that was not 0 is 0 only between line 38 and the end of cb.
C30_LimitRestored ==
    /\ (at = "idle" /\ Len(cb) < MaxCalls) => stackTraceLimit = before
    /\ (stackTraceLimit = 0 /\ before # 0) => at \in {"zeroed", "called"}

====
